---- MODULE Spec2Model ----
(***************************************************************************)
(* A model of rdna (src/main.rs): the terminal "nucleotide rain".          *)
(*                                                                         *)
(* main sets the terminal up, runs the frame loop and restores the         *)
(* terminal.  The model steps main at every terminal I/O operation, each   *)
(* of which either succeeds or fails with an io::Error; the random number  *)
(* generator is a nondeterministic choice over the range it draws from.    *)
(***************************************************************************)
EXTENDS Integers, Sequences, FiniteSets

VARIABLES
    pc,            \* position of main / run
    raw,           \* terminal: raw input mode enabled
    alt,           \* terminal: alternate screen active
    cursorHidden,  \* terminal: cursor hidden
    width,         \* run: terminal width captured by terminal::size()
    height,        \* run: terminal height captured by terminal::size()
    columns,       \* run: Vec<Column>
    ci,            \* run: index of the column the for loop is at (0: none)
    event,         \* the event delivered by the last event::read() of the frame
    result,        \* main: the value of `result` (what run returned)
    exitStatus,    \* what main returned
    cleanupCalls,  \* number of calls of cleanup_terminal
    frameLog,      \* the draw/update/flush calls run made in the current frame
    flushes,       \* number of flushes of stdout issued in the current frame
    writes,        \* the execute! calls issued by the draw call just made
    upd,           \* the update call last made: column and y before the call
    failed,        \* the first terminal I/O failure of the execution, if any
    fade_t,        \* fade harness: trail_len
    fades,         \* fade harness: fade factors computed for i = 1, 2, ...
    arith,         \* arithmetic harness: the integer fields of one column
    screen         \* screen harness: the lit rows of the column, frames drawn

vars == <<pc, raw, alt, cursorHidden, width, height, columns, ci, event,
          result, exitStatus, cleanupCalls, frameLog, flushes, writes, upd, failed,
          fade_t, fades, arith, screen>>

termVars == <<raw, alt, cursorHidden>>
harnessVars == <<fade_t, fades, arith, screen>>

----------------------------------------------------------------------------
(* Bounds of the model *)

MaxWidth == 3
MaxHeight == 1
MaxFadeHeight == 48
MaxArithHeight == 16
MaxRngChoices == 8
MaxScreenHeight == 3
MaxScreenFrames == 16

(* Program constants *)

NUCLEOTIDES == <<"A", "T", "C", "G", "U">>
MinTrail == 4
RegenCount == 4
I16Max == 32767
U16Max == 65535
HugeIndex == 2147418112

Max(a, b) == IF a >= b THEN a ELSE b

----------------------------------------------------------------------------
(* Integer conversions and arithmetic at the width the code uses *)

\* the value of an integer reduced into i16 (two's complement)
I16(n) ==
    LET m == n % (U16Max + 1)
    IN  IF m > I16Max THEN m - (U16Max + 1) ELSE m

\* `h as i16` for a u16 h
AsI16(h) == I16(h)

\* `row as usize` for an i16 row: a negative row sign-extends to an index
\* beyond every Vec this program builds (at most 65535 long)
AsUsize(row) == IF row >= 0 THEN row ELSE HugeIndex + row

\* rng.gen_range(lo..hi)
GenRange(lo, hi) == lo .. (hi - 1)

\* whether an exact result is representable in i16
Fits16(n) == -(I16Max + 1) <= n /\ n <= I16Max

----------------------------------------------------------------------------
(* Column *)

nucleotide_color(ch) ==
    CASE ch = "A" -> <<0, 200, 0>>
      [] ch = "T" -> <<200, 0, 0>>
      [] ch = "C" -> <<0, 100, 255>>
      [] ch = "G" -> <<220, 220, 0>>
      [] ch = "U" -> <<153, 51, 255>>
      [] OTHER    -> <<0, 200, 0>>

\* mutant: the minimum of 4 is left out
TrailLen_mut(h) == AsI16(h \div 3)

\* (height / 3).max(4) as i16
TrailLen(h) == AsI16(Max(h \div 3, MinTrail))

\* the symbols Column::new fills chars with
NewAlphabet == { NUCLEOTIDES[k + 1] : k \in GenRange(0, Len(NUCLEOTIDES)) }

\* the set of columns Column::new(x, h) can return
Column_new(x, h) ==
    LET trail_len == TrailLen(h)
    IN  { [x |-> x, y |-> y, speed |-> s, trail_len |-> trail_len, chars |-> cs] :
            y \in GenRange(-trail_len, 0),
            s \in GenRange(1, 2),
            cs \in [1..h -> NewAlphabet] }

\* mutant: the fade divides by trail_len + 1
Fade_mut(i, trail_len) == <<trail_len + 1 - i, trail_len + 1>>

\* the fade factor 1.0 - (i / trail_len) of trail row i, as the fraction
\* <<numerator, denominator>>
Fade(i, trail_len) == <<trail_len - i, trail_len>>

\* mutant: the upper bound test off by one (row > height)
RowSkipped_mut(row, h) == row < 0 \/ row > AsI16(h)

\* the bounds test of the trail loop: row < 0 || row >= height as i16
RowSkipped(row, h) == row < 0 \/ row >= AsI16(h)

\* the rows of the trail loop that pass the bounds test, for i = from..trail_len
RECURSIVE TrailCells(_, _, _)
TrailCells(col, h, from) ==
    IF from > col.trail_len THEN <<>>
    ELSE LET row == I16(col.y - from)
             rest == TrailCells(col, h, from + 1)
         IN  IF RowSkipped(row, h)
             THEN rest
             ELSE <<[kind |-> "char", x |-> col.x, row |-> row,
                     idx |-> AsUsize(row), i |-> from]>> \o rest

\* the erase just beyond the trail
EraseCells(col, h) ==
    LET erase_row == I16(I16(col.y - col.trail_len) - 1)
    IN  IF erase_row >= 0 /\ erase_row < AsI16(h)
        THEN <<[kind |-> "erase", x |-> col.x, row |-> erase_row,
                idx |-> 0, i |-> 0]>>
        ELSE <<>>

\* the execute! calls of Column::draw, in order
DrawOps(col, h) == TrailCells(col, h, 0) \o EraseCells(col, h)

\* an index into chars is in bounds
InChars(col, idx) == idx + 1 \in DOMAIN col.chars

\* what one execute! of draw puts on the terminal
Cell(col, op) ==
    IF op.kind = "erase"
    THEN [kind |-> "erase", x |-> op.x, row |-> op.row, idx |-> 0, i |-> 0,
          ch |-> " ", fade |-> <<0, 1>>, head |-> FALSE]
    ELSE [kind |-> "char", x |-> op.x, row |-> op.row, idx |-> op.idx, i |-> op.i,
          ch |-> col.chars[op.idx + 1],
          fade |-> IF op.i = 0 THEN <<1, 1>> ELSE Fade(op.i, col.trail_len),
          head |-> op.i = 0]

\* the first execute! of draw whose chars index is out of bounds (0: none)
FirstPanic(col, ops) ==
    LET bad == { k \in DOMAIN ops : ops[k].kind = "char" /\ ~InChars(col, ops[k].idx) }
    IN  IF bad = {} THEN 0 ELSE CHOOSE k \in bad : \A j \in bad : k <= j

\* mutant: regeneration draws from the whole alphabet, as Column::new does
RegenAlphabet_mut == { NUCLEOTIDES[k + 1] : k \in GenRange(0, Len(NUCLEOTIDES)) }

\* the symbols update regenerates chars from
RegenAlphabet == { NUCLEOTIDES[k + 1] : k \in GenRange(0, RegenCount) }

\* whether update wraps the column, given y after the increment
Wraps(y1, trail_len, h) == I16(y1 - trail_len) > AsI16(h)

\* the set of columns Column::update(h) can leave
Column_update(col, h) ==
    LET y1 == I16(col.y + AsI16(col.speed))
    IN  IF Wraps(y1, col.trail_len, h)
        THEN { [col EXCEPT !.y = ny, !.chars = cs] :
                 ny \in GenRange(-col.trail_len, 0),
                 cs \in [DOMAIN col.chars -> RegenAlphabet] }
        ELSE { [col EXCEPT !.y = y1] }

----------------------------------------------------------------------------
(* run: construction of the columns *)

\* mutant: the range includes width (0..=w)
RECURSIVE StepBy2_mut(_, _)
StepBy2_mut(x, w) == IF x > w THEN <<>> ELSE <<x>> \o StepBy2_mut(x + 2, w)

\* (0..w).step_by(2)
RECURSIVE StepBy2(_, _)
StepBy2(x, w) == IF x >= w THEN <<>> ELSE <<x>> \o StepBy2(x + 2, w)

\* .map(|x| Column::new(x, height)).collect(): the vectors it can build
RECURSIVE MapNew(_, _)
MapNew(xs, h) ==
    IF xs = <<>> THEN { <<>> }
    ELSE { <<c>> \o rest : c \in Column_new(Head(xs), h), rest \in MapNew(Tail(xs), h) }

NewColumns(w, h) == MapNew(StepBy2(0, w), h)

----------------------------------------------------------------------------
(* Values of the bookkeeping variables *)

NoUpd == [c |-> 0, y0 |-> 0, h |-> 0]
NoFail == [op |-> "none", log |-> <<>>, flushes |-> 0]
NoArith == [h |-> 0, y |-> 0, speed |-> 0, trail_len |-> 0, build |-> "none",
            ovf |-> "none", wrapped |-> FALSE, updated |-> FALSE, y0 |-> 0]
NoScreen == [lit |-> {}, frame |-> 0]
Events == {"key_q", "key_esc", "key_other", "non_key"}
LoopPcs == {"poll", "read", "draw", "update", "flush"}

IsErr(r) == r \notin {"none", "ok", "running", "panic"}

\* records the first I/O failure, with the frame log and flush count it left
Fail(op, log, fl) ==
    failed' = IF failed = NoFail THEN [op |-> op, log |-> log, flushes |-> fl]
              ELSE failed

Init ==
    /\ pc = "setup_raw"
    /\ raw = FALSE /\ alt = FALSE /\ cursorHidden = FALSE
    /\ width = 0 /\ height = 0 /\ columns = <<>> /\ ci = 0
    /\ event = "none"
    /\ result = "none" /\ exitStatus = "running"
    /\ cleanupCalls = 0
    /\ frameLog = <<>> /\ flushes = 0 /\ writes = <<>>
    /\ upd = NoUpd /\ failed = NoFail
    /\ fade_t = 0 /\ fades = <<>> /\ arith = NoArith /\ screen = NoScreen

----------------------------------------------------------------------------
(* main: setup_terminal(&mut stdout)? *)

\* `?` on a failed setup_terminal: main returns the error at once
SetupReturn(err) ==
    /\ exitStatus' = err
    /\ pc' = "exit"

\* terminal::enable_raw_mode()?
SetupRaw ==
    /\ pc = "setup_raw"
    /\ \/ /\ raw' = TRUE
          /\ pc' = "setup_exec"
          /\ UNCHANGED <<exitStatus, failed>>
       \/ /\ raw' = raw
          /\ SetupReturn("err_enable_raw")
          /\ Fail("err_enable_raw", frameLog, flushes)
    /\ UNCHANGED <<alt, cursorHidden, width, height, columns, ci, event, result,
                   cleanupCalls, frameLog, flushes, writes, upd, harnessVars>>

\* execute!(stdout, EnterAlternateScreen, cursor::Hide)?
\* a failing execute! may have put any prefix of its commands through
SetupExec ==
    /\ pc = "setup_exec"
    /\ \/ /\ alt' = TRUE /\ cursorHidden' = TRUE
          /\ pc' = "size"
          /\ UNCHANGED <<exitStatus, failed>>
       \/ /\ \/ alt' = alt /\ cursorHidden' = cursorHidden
             \/ alt' = TRUE /\ cursorHidden' = cursorHidden
             \/ alt' = TRUE /\ cursorHidden' = TRUE
          /\ SetupReturn("err_setup_exec")
          /\ Fail("err_setup_exec", frameLog, flushes)
    /\ UNCHANGED <<raw, width, height, columns, ci, event, result,
                   cleanupCalls, frameLog, flushes, writes, upd, harnessVars>>

----------------------------------------------------------------------------
(* run *)

\* run returns r to main: columns is dropped and main goes on to cleanup
\* (width and height keep the size the run was made for)
RunReturn(r) ==
    /\ result' = r
    /\ pc' = "cleanup_exec"
    /\ columns' = <<>> /\ ci' = 0
    /\ upd' = NoUpd
    /\ UNCHANGED <<width, height>>

\* entry of `for col in &mut columns`, or its end when there is no column
StartFor ==
    /\ IF Len(columns) = 0
       THEN pc' = "flush" /\ ci' = 0
       ELSE pc' = "draw" /\ ci' = 1
    /\ UNCHANGED <<result, columns, width, height, upd>>

\* let (width, height) = terminal::size()?; and the construction of columns
RunSize ==
    /\ pc = "size"
    /\ \/ \E w \in 0..MaxWidth, h \in 0..MaxHeight :
            /\ width' = w /\ height' = h
            /\ columns' \in NewColumns(w, h)
            /\ pc' = "poll"
            /\ UNCHANGED <<result, ci, upd, failed>>
       \/ /\ RunReturn("err_size")
          /\ Fail("err_size", frameLog, flushes)
    /\ writes' = <<>>
    /\ UNCHANGED <<termVars, event, exitStatus, cleanupCalls, frameLog, flushes,
                   harnessVars>>

\* top of the loop: event::poll(Duration::from_millis(60))?
Poll ==
    /\ pc = "poll"
    /\ frameLog' = <<>> /\ flushes' = 0 /\ writes' = <<>> /\ event' = "none"
    /\ \/ /\ pc' = "read"
          /\ UNCHANGED <<result, columns, width, height, ci, upd, failed>>
       \/ /\ StartFor
          /\ UNCHANGED failed
       \/ /\ RunReturn("err_poll")
          /\ Fail("err_poll", <<>>, 0)
    /\ UNCHANGED <<termVars, exitStatus, cleanupCalls, harnessVars>>

\* mutant: Esc is not tested
IsQuit_mut(e) == e = "key_q"

\* key.code == KeyCode::Char('q') || key.code == KeyCode::Esc, for a key event
IsQuit(e) == e = "key_q" \/ e = "key_esc"

\* mutant: any key press leaves the loop
AfterRead_mut(e) == IF e # "non_key" THEN RunReturn("ok") ELSE StartFor

\* what run does with the event it read
AfterRead(e) == IF IsQuit(e) THEN RunReturn("ok") ELSE StartFor

\* event::read()? and the test of the key
Read ==
    /\ pc = "read"
    /\ \/ \E e \in Events :
            /\ event' = e
            /\ AfterRead(e)
            /\ UNCHANGED failed
       \/ /\ event' = event
          /\ RunReturn("err_read")
          /\ Fail("err_read", frameLog, flushes)
    /\ writes' = <<>>
    /\ UNCHANGED <<termVars, exitStatus, cleanupCalls, frameLog, flushes,
                   harnessVars>>

\* mutant: the result of col.draw is ignored
DrawReturn_mut(r) ==
    pc' = "update" /\ UNCHANGED <<result, columns, width, height, ci, upd>>

\* `?` on the result of col.draw: an error leaves run, success goes on to update
DrawReturn(r) ==
    IF r = "ok"
    THEN pc' = "update" /\ UNCHANGED <<result, columns, width, height, ci, upd>>
    ELSE RunReturn(r)

\* the cells the first n execute! calls of a draw put out
Cells(col, ops, n) == [k \in 1..n |-> Cell(col, ops[k])]

\* col.draw(stdout, height)?: every execute! queues its commands and flushes
\* stdout; the first one that fails ends draw, an index beyond chars panics
Draw ==
    /\ pc = "draw"
    /\ LET col == columns[ci]
           ops == DrawOps(col, height)
           p   == FirstPanic(col, ops)
           n   == IF p = 0 THEN Len(ops) ELSE p - 1
       IN  /\ frameLog' = Append(frameLog, <<"draw", ci>>)
           /\ \/ /\ p = 0
                 /\ writes' = Cells(col, ops, n)
                 /\ flushes' = flushes + n
                 /\ DrawReturn("ok")
                 /\ UNCHANGED <<failed, exitStatus>>
              \/ \E f \in 1..n :
                    /\ writes' = Cells(col, ops, f)
                    /\ flushes' = flushes + (f - 1)
                    /\ DrawReturn("err_draw")
                    /\ Fail("err_draw", frameLog', flushes')
                    /\ UNCHANGED exitStatus
              \/ /\ p # 0
                 /\ writes' = Cells(col, ops, n)
                 /\ flushes' = flushes + n
                 /\ pc' = "panic" /\ exitStatus' = "panic"
                 /\ UNCHANGED <<result, columns, width, height, ci, upd, failed>>
    /\ UNCHANGED <<termVars, event, cleanupCalls, harnessVars>>

\* the for loop moves to the next column, or ends
NextColumn ==
    IF ci < Len(columns)
    THEN pc' = "draw" /\ ci' = ci + 1
    ELSE pc' = "flush" /\ ci' = 0

\* col.update(height)
Update ==
    /\ pc = "update"
    /\ \E c2 \in Column_update(columns[ci], height) :
          columns' = [columns EXCEPT ![ci] = c2]
    /\ upd' = [c |-> ci, y0 |-> columns[ci].y, h |-> height]
    /\ frameLog' = Append(frameLog, <<"update", ci>>)
    /\ writes' = <<>>
    /\ NextColumn
    /\ UNCHANGED <<termVars, width, height, event, result, exitStatus,
                   cleanupCalls, flushes, failed, harnessVars>>

\* stdout.flush()? at the end of the frame
Flush ==
    /\ pc = "flush"
    /\ frameLog' = Append(frameLog, <<"flush", 0>>)
    /\ writes' = <<>>
    /\ \/ /\ flushes' = flushes + 1
          /\ pc' = "poll"
          /\ UNCHANGED <<result, columns, width, height, ci, upd, failed>>
       \/ /\ flushes' = flushes
          /\ RunReturn("err_flush")
          /\ Fail("err_flush", frameLog', flushes')
    /\ UNCHANGED <<termVars, event, exitStatus, cleanupCalls, harnessVars>>

----------------------------------------------------------------------------
(* main: cleanup_terminal(&mut stdout)?; result *)

\* `?` on a failed cleanup_terminal: main returns the cleanup's error
CleanupReturn(err) ==
    /\ exitStatus' = err
    /\ pc' = "exit"

\* cleanup_terminal is entered: execute!(stdout, LeaveAlternateScreen, cursor::Show)?
CleanupExec ==
    /\ pc = "cleanup_exec"
    /\ cleanupCalls' = cleanupCalls + 1
    /\ \/ /\ alt' = FALSE /\ cursorHidden' = FALSE
          /\ pc' = "cleanup_raw"
          /\ UNCHANGED <<exitStatus, failed>>
       \/ /\ \/ alt' = alt /\ cursorHidden' = cursorHidden
             \/ alt' = FALSE /\ cursorHidden' = cursorHidden
             \/ alt' = FALSE /\ cursorHidden' = FALSE
          /\ CleanupReturn("err_cleanup_exec")
          /\ Fail("err_cleanup_exec", frameLog, flushes)
    /\ writes' = <<>>
    /\ UNCHANGED <<raw, width, height, columns, ci, event, result,
                   frameLog, flushes, upd, harnessVars>>

\* terminal::disable_raw_mode()?; then main returns result
CleanupRaw ==
    /\ pc = "cleanup_raw"
    /\ \/ /\ raw' = FALSE
          /\ exitStatus' = result
          /\ pc' = "exit"
          /\ UNCHANGED failed
       \/ /\ raw' = raw
          /\ CleanupReturn("err_disable_raw")
          /\ Fail("err_disable_raw", frameLog, flushes)
    /\ UNCHANGED <<alt, cursorHidden, width, height, columns, ci, event, result,
                   cleanupCalls, frameLog, flushes, writes, upd, harnessVars>>

----------------------------------------------------------------------------

Next ==
    \/ SetupRaw
    \/ SetupExec
    \/ RunSize
    \/ Poll
    \/ Read
    \/ Draw
    \/ Update
    \/ Flush
    \/ CleanupExec
    \/ CleanupRaw

Spec == Init /\ [][Next]_vars

----------------------------------------------------------------------------
(* The fade factors of Column::draw, for the trail lengths Column::new gives *)

InitFade ==
    /\ pc = "fade"
    /\ raw = FALSE /\ alt = FALSE /\ cursorHidden = FALSE
    /\ width = 0 /\ height = 0 /\ columns = <<>> /\ ci = 0
    /\ event = "none"
    /\ result = "none" /\ exitStatus = "running"
    /\ cleanupCalls = 0
    /\ frameLog = <<>> /\ flushes = 0 /\ writes = <<>>
    /\ upd = NoUpd /\ failed = NoFail
    /\ fade_t \in { TrailLen(h) : h \in 0..MaxFadeHeight }
    /\ fades = <<>> /\ arith = NoArith /\ screen = NoScreen

\* one pass of `for i in 0..=self.trail_len` with i >= 1: the `_` arm computes
\* fade for i; the loop ends after i = trail_len
DrawFade ==
    /\ pc = "fade"
    /\ Len(fades) + 1 <= fade_t
    /\ fades' = Append(fades, Fade(Len(fades) + 1, fade_t))
    /\ UNCHANGED <<pc, termVars, width, height, columns, ci, event, result,
                   exitStatus, cleanupCalls, frameLog, flushes, writes, upd,
                   failed, fade_t, arith, screen>>

SpecFade == InitFade /\ [][DrawFade]_vars

----------------------------------------------------------------------------
(* The i16 arithmetic of one column, for terminal heights up to u16::MAX.   *)
(* The column is followed through draw and update by its integer fields     *)
(* alone (chars is as long as the height and is not read by the arithmetic).*)
(* An operation whose exact result leaves i16 panics in a build with        *)
(* overflow checks ("debug") and wraps in one without ("release").          *)

ArithHeights == (0..MaxArithHeight) \cup {I16Max, I16Max + 1, U16Max}

\* the values of rng.gen_range(lo..hi) followed: all of a short range, the two
\* ends of a long one
RngSample(lo, hi) ==
    IF hi - lo <= MaxRngChoices THEN GenRange(lo, hi) ELSE {lo, hi - 1}

InitArith ==
    /\ pc = "arith_draw"
    /\ raw = FALSE /\ alt = FALSE /\ cursorHidden = FALSE
    /\ width = 0 /\ height = 0 /\ columns = <<>> /\ ci = 0
    /\ event = "none"
    /\ result = "none" /\ exitStatus = "running"
    /\ cleanupCalls = 0
    /\ frameLog = <<>> /\ flushes = 0 /\ writes = <<>>
    /\ upd = NoUpd /\ failed = NoFail
    /\ fade_t = 0 /\ fades = <<>> /\ screen = NoScreen
    /\ \E h \in ArithHeights, b \in {"debug", "release"} :
         \E y \in RngSample(-TrailLen(h), 0), s \in GenRange(1, 2) :
            arith = [h |-> h, y |-> y, speed |-> s, trail_len |-> TrailLen(h),
                     build |-> b, ovf |-> "none", wrapped |-> FALSE,
                     updated |-> FALSE, y0 |-> y]

\* the first overflow met is kept; a debug build panics on it
ArithStep(a, ovf, nextPc) ==
    /\ arith' = [a EXCEPT !.ovf = IF arith.ovf = "none" THEN ovf ELSE arith.ovf]
    /\ pc' = IF ovf # "none" /\ a.build = "debug" THEN "panic" ELSE nextPc

\* the first operation of Column::draw whose exact result leaves i16, among
\* row = self.y - i for i in 0..=trail_len and
\* erase_row = self.y - self.trail_len - 1
DrawOvf(a) ==
    IF \E i \in {0, a.trail_len} : ~Fits16(a.y - i) THEN "y - i"
    ELSE IF ~Fits16(I16(a.y - a.trail_len) - 1) THEN "y - trail_len - 1"
    ELSE "none"

\* the first operation of Column::update whose exact result leaves i16, among
\* self.y += self.speed as i16 and self.y - self.trail_len
UpdateOvf(a) ==
    IF ~Fits16(a.y + AsI16(a.speed)) THEN "y + speed"
    ELSE IF ~Fits16(I16(a.y + AsI16(a.speed)) - a.trail_len) THEN "y - trail_len"
    ELSE "none"

\* Column::draw
ArithDraw ==
    /\ pc = "arith_draw"
    /\ ArithStep(arith, DrawOvf(arith), "arith_update")
    /\ UNCHANGED <<termVars, width, height, columns, ci, event, result,
                   exitStatus, cleanupCalls, frameLog, flushes, writes, upd,
                   failed, fade_t, fades, screen>>

\* Column::update: self.y += self.speed as i16; the test
\* self.y - self.trail_len > height as i16; the reset of y
\* (y0 keeps the y the update started from)
ArithUpdate ==
    /\ pc = "arith_update"
    /\ LET y1  == I16(arith.y + AsI16(arith.speed))
           w   == Wraps(y1, arith.trail_len, arith.h)
           ovf == UpdateOvf(arith)
       IN  \E ny \in (IF w THEN RngSample(-arith.trail_len, 0) ELSE {y1}) :
              ArithStep([arith EXCEPT !.y = ny, !.wrapped = w,
                                      !.updated = TRUE, !.y0 = arith.y],
                        ovf, "arith_draw")
    /\ UNCHANGED <<termVars, width, height, columns, ci, event, result,
                   exitStatus, cleanupCalls, frameLog, flushes, writes, upd,
                   failed, fade_t, fades, screen>>

NextArith == ArithDraw \/ ArithUpdate

SpecArith == InitArith /\ [][NextArith]_vars

----------------------------------------------------------------------------
(* The screen column of one Column, from a blank screen: the rows that hold *)
(* a character other than a space.  The column is followed by its integer   *)
(* fields for MaxScreenFrames frames; every character of NUCLEOTIDES is     *)
(* other than a space, so a trail cell written is lit and an erased one is  *)
(* not.                                                                     *)

ScreenHeights == (0..MaxScreenHeight) \cup {U16Max}

\* the rows the trail loop of draw prints a character at
WrittenRows(a) ==
    { r \in { I16(a.y - i) : i \in 0..a.trail_len } : ~RowSkipped(r, a.h) }

\* the row draw prints a space at
ErasedRows(a) ==
    LET erase_row == I16(I16(a.y - a.trail_len) - 1)
    IN  IF erase_row >= 0 /\ erase_row < AsI16(a.h) THEN {erase_row} ELSE {}

InitScreen ==
    /\ pc = "screen_draw"
    /\ raw = FALSE /\ alt = FALSE /\ cursorHidden = FALSE
    /\ width = 0 /\ height = 0 /\ columns = <<>> /\ ci = 0
    /\ event = "none"
    /\ result = "none" /\ exitStatus = "running"
    /\ cleanupCalls = 0
    /\ frameLog = <<>> /\ flushes = 0 /\ writes = <<>>
    /\ upd = NoUpd /\ failed = NoFail
    /\ fade_t = 0 /\ fades = <<>> /\ screen = NoScreen
    /\ \E h \in ScreenHeights, b \in {"debug", "release"} :
         \E y \in RngSample(-TrailLen(h), 0), s \in GenRange(1, 2) :
            arith = [h |-> h, y |-> y, speed |-> s, trail_len |-> TrailLen(h),
                     build |-> b, ovf |-> "none", wrapped |-> FALSE,
                     updated |-> FALSE, y0 |-> y]

\* col.draw(stdout, height)?: the trail is printed, then the erase
ScreenDraw ==
    /\ pc = "screen_draw"
    /\ screen.frame < MaxScreenFrames
    /\ ArithStep(arith, DrawOvf(arith), "screen_update")
    /\ screen' = [lit |-> (screen.lit \cup WrittenRows(arith)) \ ErasedRows(arith),
                  frame |-> screen.frame + 1]
    /\ UNCHANGED <<termVars, width, height, columns, ci, event, result,
                   exitStatus, cleanupCalls, frameLog, flushes, writes, upd,
                   failed, fade_t, fades>>

\* col.update(height)
ScreenUpdate ==
    /\ pc = "screen_update"
    /\ LET y1  == I16(arith.y + AsI16(arith.speed))
           w   == Wraps(y1, arith.trail_len, arith.h)
       IN  \E ny \in (IF w THEN RngSample(-arith.trail_len, 0) ELSE {y1}) :
              ArithStep([arith EXCEPT !.y = ny, !.wrapped = w,
                                      !.updated = TRUE, !.y0 = arith.y],
                        UpdateOvf(arith), "screen_draw")
    /\ UNCHANGED <<termVars, width, height, columns, ci, event, result,
                   exitStatus, cleanupCalls, frameLog, flushes, writes, upd,
                   failed, fade_t, fades, screen>>

NextScreen == ScreenDraw \/ ScreenUpdate

SpecScreen == InitScreen /\ [][NextScreen]_vars

----------------------------------------------------------------------------
(* Properties *)

LoopErrs == {"err_size", "err_poll", "err_read", "err_draw", "err_flush"}
AfterRun == {"cleanup_exec", "cleanup_raw", "exit"}

\* fractions <<numerator, denominator>> with positive denominators
FracEq(a, b) == a[1] * b[2] = b[1] * a[2]
FracLess(a, b) == a[1] * b[2] < b[1] * a[2]

\* the calls of a whole frame over n columns, in the order the loop makes them
ExpectedFrame(n) ==
    [k \in 1..(2 * n + 1) |->
        IF k = 2 * n + 1 THEN <<"flush", 0>>
        ELSE IF k % 2 = 1 THEN <<"draw", (k + 1) \div 2>>
        ELSE <<"update", k \div 2>>]

\* C1: whenever main has returned, cleanup_terminal has been called exactly
\* once, on every path through main.
C1_CleanupExactlyOnce ==
    pc = "exit" => cleanupCalls = 1

\* C2: if any terminal I/O operation failed, main returns a failure and the
\* terminal is restored at exit: raw mode off, primary screen, cursor shown.
C2_FailureLeavesTerminalRestored ==
    (pc = "exit" /\ failed # NoFail) =>
        /\ IsErr(exitStatus)
        /\ ~raw /\ ~alt /\ ~cursorHidden

\* C3: once cleanup_terminal has executed, what main returns is the result
\* run produced, error or success; cleanup never replaces it.
C3_OutcomeIsLoopResult ==
    (pc = "exit" /\ cleanupCalls > 0) => exitStatus = result

\* C4: when the event read at the top of a frame is the key q or Esc, run has
\* left the loop with success and nothing was drawn, updated or flushed in
\* that frame.
C4_QuitEndsFrameAtOnce ==
    event \in {"key_q", "key_esc"} =>
        /\ pc \in AfterRun
        /\ result = "ok"
        /\ frameLog = <<>> /\ flushes = 0 /\ writes = <<>>

C4_Witness ==
    /\ event = "key_esc" /\ pc = "exit" /\ exitStatus = "ok"
    /\ width = MaxWidth /\ height = MaxHeight

\* C5: the first I/O failure inside run leaves the loop at once: run returns
\* that error, and no draw, update or flush follows the failing operation
\* (the column whose draw failed is not updated).
C5_FirstFailureAbortsLoop ==
    failed.op \in LoopErrs =>
        /\ pc \in AfterRun
        /\ result = failed.op
        /\ frameLog = failed.log
        /\ flushes = failed.flushes
        /\ failed.op = "err_draw" =>
              /\ failed.log # <<>>
              /\ failed.log[Len(failed.log)][1] = "draw"

C5_Witness ==
    /\ failed.op = "err_draw" /\ result = "err_draw" /\ pc = "cleanup_exec"
    /\ failed.log = <<<<"draw", 1>>, <<"update", 1>>, <<"draw", 2>>>>
    /\ writes # <<>>

\* C6: every cell draw writes (trail character or erasing space) is at a row
\* in [0, height), every index used to read chars is within chars, whose
\* length is height; no draw panics on an index out of bounds.
C6_DrawnRowsInBounds ==
    /\ pc # "panic"
    /\ \A k \in DOMAIN writes :
          /\ 0 <= writes[k].row /\ writes[k].row < height
          /\ writes[k].kind = "char" =>
                (0 <= writes[k].idx /\ writes[k].idx < height)
    /\ \A c \in DOMAIN columns : Len(columns[c].chars) = height

C6_Witness ==
    /\ pc = "update"
    /\ columns[ci].y >= height
    /\ \E k \in DOMAIN writes : writes[k].kind = "char" /\ writes[k].row = height - 1

\* C7: an update for which y - trail_len > height held (before the call or,
\* as the code tests it, after the call added speed to y) leaves y in
\* [-trail_len, 0) and every character among A, T, C, G.
C7_WrapResetsColumn ==
    (upd.c # 0 /\ pc \in LoopPcs) =>
        LET col == columns[upd.c]
        IN  (\/ upd.y0 - col.trail_len > upd.h
             \/ upd.y0 + col.speed - col.trail_len > upd.h) =>
                /\ -col.trail_len <= col.y /\ col.y < 0
                /\ \A k \in DOMAIN col.chars : col.chars[k] \in {"A", "T", "C", "G"}

C7_Witness ==
    /\ upd.c # 0 /\ pc \in LoopPcs
    /\ height = MaxHeight
    /\ upd.y0 + columns[upd.c].speed - columns[upd.c].trail_len > upd.h
    /\ columns[upd.c].y = -1

\* C8: a frame not ended by a quit key draws then updates each column once,
\* in creation order, and flushes stdout exactly once, after all columns.
C8_FrameOrderAndSingleFlush ==
    (pc = "poll" /\ frameLog # <<>>) =>
        /\ frameLog = ExpectedFrame(Len(columns))
        /\ flushes = 1

\* C9: the columns are at the even x-offsets 0, 2, ... below width, one
\* column per offset, so there are ceil(width / 2) of them.
C9_ColumnsAtEvenOffsets ==
    pc \in LoopPcs =>
        /\ Len(columns) = (width + 1) \div 2
        /\ \A k \in DOMAIN columns :
              columns[k].x % 2 = 0 /\ 0 <= columns[k].x /\ columns[k].x < width
        /\ \A x \in 0..(width - 1) :
              x % 2 = 0 => Cardinality({ k \in DOMAIN columns : columns[k].x = x }) = 1

C9_Witness ==
    pc = "flush" /\ width = MaxWidth /\ Len(columns) = (MaxWidth + 1) \div 2

\* C10 as stated: the fade factor at the last trail row (i = trail_len) is
\* 1/trail_len and not zero, and the factor strictly decreases with i.
C10_LastFadeIsOneOverTrail ==
    \A i \in DOMAIN fades :
        /\ i = fade_t => (FracEq(fades[i], <<1, fade_t>>) /\ fades[i][1] # 0)
        /\ \A j \in 1..(i - 1) : FracLess(fades[i], fades[j])

\* C10 amended: the fade factor strictly decreases with i over 1..trail_len;
\* it is 1/trail_len at i = trail_len - 1 and exactly zero at i = trail_len.
C10_FadeDecreasesToZero ==
    \A i \in DOMAIN fades :
        /\ i = fade_t => fades[i][1] = 0
        /\ i = fade_t - 1 => FracEq(fades[i], <<1, fade_t>>)
        /\ fades[i][2] > 0
        /\ \A j \in 1..(i - 1) : FracLess(fades[i], fades[j])

C10_Witness ==
    Len(fades) = fade_t /\ fade_t > MinTrail

\* C11: for every terminal height, heights below 12 and height 0 included,
\* trail_len is max(height / 3, 4), at least 4, at construction and after any
\* sequence of updates.
C11_TrailAtLeastFour ==
    arith # NoArith =>
        /\ arith.trail_len >= 4
        /\ arith.trail_len = (IF arith.h \div 3 >= 4 THEN arith.h \div 3 ELSE 4)

C11_Witness ==
    /\ arith.h = 0 /\ arith.trail_len = 4
    /\ arith.wrapped /\ pc = "arith_update"

\* C12: while the frame loop keeps running every column cycles forever: from
\* every reachable state some later update wraps it, so it is never stuck in
\* a state from which it no longer wraps.  (Until it wraps, the n-th update
\* from a state tests y + n * speed, in i16.)
C12_ColumnCanAlwaysWrap ==
    pc \in {"arith_draw", "arith_update"} =>
        \E n \in 1..(U16Max + 1) :
            Wraps(I16(arith.y + n * AsI16(arith.speed)), arith.trail_len, arith.h)

C14_UpdateAddsSpeedOrResets ==
    (pc = "arith_draw" /\ arith.updated) =>
        /\ arith.speed = 1 /\ arith.trail_len = TrailLen(arith.h)
        /\ IF arith.wrapped
           THEN -arith.trail_len <= arith.y /\ arith.y < 0
           ELSE arith.y = arith.y0 + arith.speed

\* C15: from a blank screen, after every draw of a column the rows of its
\* screen column that hold a character other than a space are exactly the
\* rows r with 0 <= r < height and y - trail_len <= r <= y; when the column
\* has just been reset, no row is lit.
C15_LitRowsAreTheTrail ==
    /\ pc = "screen_update" =>
          screen.lit = { r \in 0..(arith.h - 1) :
                           arith.y - arith.trail_len <= r /\ r <= arith.y }
    /\ (pc = "screen_draw" /\ arith.wrapped) => screen.lit = {}

\* C16: for every terminal height the i16 arithmetic of a column stays in
\* range: the cast height as i16 keeps the value of height, and none of
\* y + speed, y - i, y - trail_len and y - trail_len - 1 leaves i16.
C16_I16ArithmeticInRange ==
    pc \in {"arith_draw", "arith_update", "panic"} =>
        /\ AsI16(arith.h) = arith.h
        /\ arith.ovf = "none"

====
